---- MODULE Spec2Model ----
(***************************************************************************)
(* Model of scripts/amazon_price_tracker.py: the per-product price check   *)
(* of main() (open, evaluate, offer scan, price resolution, store, commit, *)
(* cleanup), the digest and its delivery, the history queries over the     *)
(* price_checks table, init_db's migration of an existing store and the    *)
(* price parser; and of the alert decision of scripts/btc_watcher.py.      *)
(*                                                                         *)
(* Texts are sequences of one-character strings; amounts are integers in   *)
(* hundredths (pence), so "9.50" is 950.  Columns and result keys that no  *)
(* property reads (label, url, ccc, the rewritten offers URL) are left     *)
(* out of the records.                                                     *)
(***************************************************************************)
EXTENDS Integers, Sequences, FiniteSets, TLC

VARIABLES
    items,          \* the watchlist: sequence of ASINs (load_watchlist)
    run_id,         \* this run's identifier
    ts,             \* this run's timestamp (now_ts, taken once per run)
    price_checks,   \* the price_checks table as the connection sees it
    committed,      \* how many rows of price_checks are durable
    products,       \* the products table (set of ASINs)
    pc,             \* position of main()
    idx,            \* index of the current watchlist item
    target_id,      \* main()'s local target_id; 0 while it is unbound
    handles,        \* number of tab handles the browser has handed out
    close_raised,   \* the last openclaw_browser_close swallowed an exception
    closed,         \* handles passed to openclaw_browser_close, in order
    data,           \* result of openclaw_browser_eval_product
    lowest_new_raw, \* locals of main()
    lowest_new_gbp,
    best_raw,
    best_gbp,
    it,             \* iterations of the offer-scan loop completed
    evals,          \* offer evaluations issued in the current scan
    scrolls,        \* scrolls issued in the current scan
    at_end,         \* sc.get("atEnd") of the last scroll of the current scan
    seen,           \* amounts of the candidates returned in the current scan
    scan,           \* how the offer scan of the current product ended
    exc,            \* length of the message of the exception being handled
    propagating,    \* an exception left the handler and is propagating
    results,        \* main()'s results list
    faults,         \* sqlite3 calls that have raised in this run
    qres,           \* last history query and its answer
    slept,          \* rand_sleep has run since the last browser action
    lines,          \* main()'s lines list: the digest
    delivered,      \* outcomes of the deliveries (print or send), in order
    columns,        \* the columns of the price_checks table; {} without table
    text,           \* the argument of a call of parse_price_gbp
    parsed,         \* what that call returned
    now,            \* btc_watcher: the clock, now_ts()
    state,          \* btc_watcher: the state file
    last_run        \* btc_watcher: what the last run saw and did

vars == <<items, run_id, ts, price_checks, committed, products, pc, idx,
          target_id, handles, close_raised, closed, data, lowest_new_raw,
          lowest_new_gbp, best_raw, best_gbp, it, evals, scrolls, at_end, seen,
          scan, exc, propagating, results, faults, qres, slept, lines,
          delivered, columns, text, parsed, now, state, last_run>>

\* the variables of btc_watcher.py
watcherVars == <<now, state, last_run>>

\* the variables main() and the history queries leave alone
elsewhere == <<columns, text, parsed, watcherVars>>

\* the variables main() does not touch before the loop over the items is over
afterLoop == <<lines, delivered>>

\* the variables of main() that the history queries are not concerned with
beyondHist == <<slept, afterLoop>>

----------------------------------------------------------------------------
(* Bounds of the model *)

MaxItems == 2       \* longest watchlist
MaxRows == 2        \* largest store the history queries are applied to
MaxTs == 4          \* latest timestamp of a stored row; the run's now_ts()
MaxStoreFaults == 1 \* sqlite3 calls that raise in one run
MaxLimit == 2       \* largest limit_days a history query is given
MaxOldRows == 2     \* rows of a store found by init_db
MaxStoreRows == 3   \* rows of a store after the runs that follow
MaxTextLen == 6     \* longest text given to parse_price_gbp
MaxNow == 6         \* latest time of a run of btc_watcher.py

(* Program constants *)

MaxScanIters == 4   \* for _ in range(4)
RowErrLen == 300    \* error=str(e)[:300]
ResultErrLen == 140 \* "error": str(e)[:140]
MissingTitleLen == 13   \* len("missing-title")
Threshold == 10     \* DEFAULT_THRESHOLD_PCT, in percent
CooldownS == 2      \* cooldown_s: DEFAULT_COOLDOWN_HOURS, the clock ticks every 6 hours
TopN == 10          \* for r in priced[:10]

----------------------------------------------------------------------------
(* Values *)

NoText == <<"None">>      \* Python None where a text is expected
NoAmount == 0 - 1         \* Python None where an amount is expected
NoError == 0 - 1          \* Python None in the error column
NoTitle == "None"         \* Python None in the title column

Asins == {"A", "B"}

T950 == <<"£", "9", ".", "5", "0">>
T1050 == <<"£", "1", "0", ".", "5", "0">>
T1200 == <<"1", "2">>

BuyboxTexts == {NoText, T1050}
OfferTexts == {NoText, T950, T1200}
Titles == {"", "Widget"}
BrowserErrLens == {400}   \* message lengths of run_cmd's RuntimeError
StoreErrLens == {20}      \* message lengths of sqlite3 errors

Min(S) == CHOOSE x \in S : \A y \in S : x <= y
Max(S) == CHOOSE x \in S : \A y \in S : x >= y

----------------------------------------------------------------------------
(* parse_price_gbp *)

Digits == <<"0", "1", "2", "3", "4", "5", "6", "7", "8", "9">>
Whitespace == {" ", "\t", "\n"}

IsDigit(c) == \E i \in 1..10 : Digits[i] = c
DigitVal(c) == (CHOOSE i \in 1..10 : Digits[i] = c) - 1

\* str.strip()
Strip(s) ==
    LET keep == {i \in 1..Len(s) : s[i] \notin Whitespace}
    IN  IF keep = {} THEN <<>> ELSE SubSeq(s, Min(keep), Max(keep))

\* RemoveCommas leaving the commas in
KeepCommas(s) == s

\* str.replace(",", "")
RemoveCommas(s) == SelectSeq(s, LAMBDA c : c # ",")

RECURSIVE DigitsValue(_)
DigitsValue(s) ==
    IF s = <<>> THEN 0
    ELSE 10 * DigitsValue(SubSeq(s, 1, Len(s) - 1)) + DigitVal(s[Len(s)])

\* PRICE_RE.search(s): leftmost match of [0-9]+(?:\.[0-9]{2})?, in pence
PriceSearch(s) ==
    LET ds == {i \in 1..Len(s) : IsDigit(s[i])}
    IN  IF ds = {} THEN NoAmount
        ELSE LET a == Min(ds)
                 b == Max({j \in a..Len(s) : \A k \in a..j : IsDigit(s[k])})
                 frac == /\ b + 3 <= Len(s)
                         /\ s[b + 1] = "."
                         /\ IsDigit(s[b + 2])
                         /\ IsDigit(s[b + 3])
             IN  100 * DigitsValue(SubSeq(s, a, b))
                   + (IF frac THEN 10 * DigitVal(s[b + 2]) + DigitVal(s[b + 3])
                      ELSE 0)

parse_price_gbp(s) ==
    IF s = NoText \/ s = <<>> THEN NoAmount
    ELSE PriceSearch(RemoveCommas(Strip(s)))

\* datetime.fromtimestamp(ts).date(): the model's clock ticks twice a day
local_day(t) == t \div 2

----------------------------------------------------------------------------
(* The price_checks table and the results list *)

\* store_check: the row the INSERT adds
store_check(r, t, asin, title, praw, pgbp, braw, bgbp, lraw, lgbp, src, ok, e) ==
    [run_id |-> r, ts |-> t, day |-> local_day(t), asin |-> asin,
     title |-> title, price_raw |-> praw, price_gbp |-> pgbp,
     buybox_price_raw |-> braw, buybox_price_gbp |-> bgbp,
     lowest_new_price_raw |-> lraw, lowest_new_price_gbp |-> lgbp,
     price_source |-> src, ok |-> ok, error |-> e]

\* ChoosePrice taking the cheaper of the two prices
ChoosePriceCheapest(lraw, lgbp, braw, bgbp) ==
    IF lgbp # NoAmount /\ (bgbp = NoAmount \/ lgbp <= bgbp)
      THEN [price_raw |-> lraw, price_gbp |-> lgbp,
            price_source |-> "lowest_new_offer"]
    ELSE IF bgbp # NoAmount
      THEN [price_raw |-> braw, price_gbp |-> bgbp, price_source |-> "buybox"]
    ELSE [price_raw |-> NoText, price_gbp |-> NoAmount,
          price_source |-> "none"]

\* ChoosePrice without the last branch: whatever is not an offer is a buy-box
ChoosePriceNoNone(lraw, lgbp, braw, bgbp) ==
    IF lgbp # NoAmount
      THEN [price_raw |-> lraw, price_gbp |-> lgbp,
            price_source |-> "lowest_new_offer"]
    ELSE [price_raw |-> braw, price_gbp |-> bgbp, price_source |-> "buybox"]

\* "Choose the price we track as primary"
ChoosePrice(lraw, lgbp, braw, bgbp) ==
    IF lgbp # NoAmount
      THEN [price_raw |-> lraw, price_gbp |-> lgbp,
            price_source |-> "lowest_new_offer"]
    ELSE IF bgbp # NoAmount
      THEN [price_raw |-> braw, price_gbp |-> bgbp, price_source |-> "buybox"]
    ELSE [price_raw |-> NoText, price_gbp |-> NoAmount,
          price_source |-> "none"]

\* the store_check call of the try block
NormalRow(r, t, asin, d, lraw, lgbp) ==
    LET bgbp == parse_price_gbp(d.buyboxPrice)
        p == ChoosePrice(lraw, lgbp, d.buyboxPrice, bgbp)
        ok == d.title # ""
    IN  store_check(r, t, asin, IF d.title = "" THEN NoTitle ELSE d.title,
                    p.price_raw, p.price_gbp, d.buyboxPrice, bgbp, lraw, lgbp,
                    p.price_source, ok,
                    IF ok THEN NoError ELSE MissingTitleLen)

\* the results.append of the try block
NormalResult(asin, d, lraw, lgbp) ==
    LET bgbp == parse_price_gbp(d.buyboxPrice)
        p == ChoosePrice(lraw, lgbp, d.buyboxPrice, bgbp)
    IN  [asin |-> asin, price_gbp |-> p.price_gbp, price_raw |-> p.price_raw,
         price_source |-> p.price_source, error |-> NoError]

Truncate(len, n) == IF len < n THEN len ELSE n

\* ErrorRow storing the whole message
ErrorRowUntruncated(r, t, asin, e) ==
    [run_id |-> r, ts |-> t, day |-> local_day(t), asin |-> asin,
     title |-> NoTitle, price_raw |-> NoText, price_gbp |-> NoAmount,
     buybox_price_raw |-> NoText, buybox_price_gbp |-> NoAmount,
     lowest_new_price_raw |-> NoText, lowest_new_price_gbp |-> NoAmount,
     price_source |-> "error", ok |-> FALSE, error |-> e]

\* the store_check call of the except block
ErrorRow(r, t, asin, e) ==
    store_check(r, t, asin, NoTitle, NoText, NoAmount, NoText, NoAmount,
                NoText, NoAmount, "error", FALSE, Truncate(e, RowErrLen))

\* the results.append of the except block
ErrorResult(asin, e) ==
    [asin |-> asin, price_gbp |-> NoAmount, price_raw |-> NoText,
     price_source |-> "error", error |-> Truncate(e, ResultErrLen)]

\* Durable when nothing is committed before the process exits
DurableAtExitOnly == <<>>

\* the columns of CREATE TABLE IF NOT EXISTS price_checks that the rows of
\* the model carry
BaseColumns ==
    {"run_id", "ts", "day", "asin", "title", "price_raw", "price_gbp", "ok",
     "error"}

\* the columns of the _ensure_column calls of init_db, in their order
OptionalColumns ==
    <<"buybox_price_raw", "buybox_price_gbp", "lowest_new_price_raw",
      "lowest_new_price_gbp", "price_source">>

AllColumns == BaseColumns \cup {OptionalColumns[k] : k \in 1..Len(OptionalColumns)}

\* NULL in a column added by ALTER TABLE ... ADD COLUMN
NullOf(col) ==
    CASE col \in {"buybox_price_raw", "lowest_new_price_raw"} -> NoText
      [] col \in {"buybox_price_gbp", "lowest_new_price_gbp"} -> NoAmount
      [] OTHER -> NoTitle

\* a row as a table with the columns cols holds it
Project(r, cols) == [c \in cols |-> r[c]]

\* AddColumn rebuilding the table without its rows
AddColumnRebuild(rows, col) == <<>>

\* ALTER TABLE price_checks ADD COLUMN col: every row gets NULL in it
AddColumn(rows, col) ==
    [i \in 1..Len(rows) |->
       [c \in (DOMAIN rows[i]) \cup {col} |->
          IF c = col THEN NullOf(col) ELSE rows[i][c]]]

\* _ensure_column(conn, "price_checks", col, decl)
ensure_column(cols, rows, col) ==
    IF col \notin cols
      THEN [columns |-> cols \cup {col}, rows |-> AddColumn(rows, col)]
      ELSE [columns |-> cols, rows |-> rows]

\* Insert replacing the stored row of the same product and day
InsertOrReplace(rows, r) ==
    IF \E i \in 1..Len(rows) : rows[i].asin = r.asin /\ rows[i].day = r.day
      THEN [i \in 1..Len(rows) |->
              IF rows[i].asin = r.asin /\ rows[i].day = r.day THEN r
              ELSE rows[i]]
      ELSE Append(rows, r)

\* INSERT INTO price_checks(...) VALUES(...)
Insert(rows, r) == Append(rows, r)

\* what is left of the table when the process dies or a commit rolls back
Durable == SubSeq(price_checks, 1, committed)

----------------------------------------------------------------------------
(* main() *)

RECURSIVE SeqsUpTo(_, _)
SeqsUpTo(S, n) ==
    IF n = 0 THEN {<<>>}
    ELSE LET shorter == SeqsUpTo(S, n - 1)
         IN  shorter \cup {Append(q, x) : q \in shorter, x \in S}

\* load_watchlist: items with an empty asin are dropped, no items is refused,
\* an asin may be listed twice.  Product names are interchangeable: the first
\* item is called "A".
Watchlists == {w \in SeqsUpTo(Asins, MaxItems) : w # <<>> /\ w[1] = "A"}

NoData == [title |-> "", buyboxPrice |-> NoText, offersUrl |-> FALSE]

\* a row left by an earlier run
PriorRow ==
    store_check(0, 0, "A", "Widget", T950, 950, T950, 950, NoText, NoAmount,
                "buybox", TRUE, NoError)

\* no history query has been made
NoQuery ==
    [op |-> "none", asin |-> "A", today |-> 0, limit |-> 0,
     value |-> NoAmount, hist |-> <<>>]

\* load_state of a file that is not there: {}
NoState == [lastAlertTs |-> 0, lastAlertSign |-> 0]

\* no run of btc_watcher.py has been made
NoRun == [change |-> 0, at |-> 0, before |-> NoState, alert |-> "none"]

\* btc_watcher.py is not running
WatcherIdle ==
    /\ now = 0
    /\ state = NoState
    /\ last_run = NoRun

\* the locals of main() before a product is processed
Locals ==
    /\ data = NoData
    /\ lowest_new_raw = NoText
    /\ lowest_new_gbp = NoAmount
    /\ best_raw = NoText
    /\ best_gbp = NoAmount
    /\ it = 0
    /\ evals = 0
    /\ scrolls = 0
    /\ at_end = FALSE
    /\ seen = {}
    /\ scan = "none"
    /\ exc = 0
    /\ propagating = FALSE

\* every local but target_id is assigned again before the next product reads it
ResetLocals ==
    /\ data' = NoData
    /\ lowest_new_raw' = NoText
    /\ lowest_new_gbp' = NoAmount
    /\ best_raw' = NoText
    /\ best_gbp' = NoAmount
    /\ it' = 0
    /\ evals' = 0
    /\ scrolls' = 0
    /\ at_end' = FALSE
    /\ seen' = {}
    /\ scan' = "none"
    /\ exc' = 0
    /\ propagating' = FALSE

Init ==
    /\ items \in Watchlists
    /\ run_id = 1
    /\ ts = MaxTs
    /\ price_checks = <<PriorRow>>
    /\ committed = Len(price_checks)
    /\ products = {price_checks[i].asin : i \in 1..Len(price_checks)}
    /\ pc = "start"
    /\ idx = 1
    /\ target_id = 0
    /\ handles = 0
    /\ close_raised = FALSE
    /\ closed = <<>>
    /\ Locals
    /\ results = <<>>
    /\ faults = 0
    /\ qres = NoQuery
    /\ slept = TRUE
    /\ lines = <<>>
    /\ delivered = <<>>
    /\ columns = AllColumns
    /\ text = NoText
    /\ parsed = NoAmount
    /\ WatcherIdle

item == items[idx]

\* the process dies with the exception: uncommitted rows are lost
Crash ==
    /\ pc' = "crashed"
    /\ price_checks' = Durable

\* openclaw_browser_start()
BrowserStart ==
    /\ pc = "start"
    /\ \E ok \in BOOLEAN :
          IF ok THEN pc' = "upsert" /\ UNCHANGED price_checks
          ELSE Crash
    /\ UNCHANGED <<items, run_id, ts, committed, products, idx, target_id,
                   handles, close_raised, closed, data, lowest_new_raw,
                   lowest_new_gbp, best_raw, best_gbp, it, evals, scrolls,
                   at_end, seen, scan, exc, propagating, results, faults,
                   qres>>
    /\ UNCHANGED <<slept, afterLoop>>
    /\ UNCHANGED elsewhere

\* a sqlite3 call raises
StoreFault ==
    /\ faults < MaxStoreFaults
    /\ faults' = faults + 1

\* upsert_product(conn, item.asin, item.label); conn.commit()
UpsertProduct ==
    /\ pc = "upsert"
    /\ \/ /\ products' = products \cup {item}
          /\ committed' = Len(price_checks)
          /\ pc' = "open"
          /\ UNCHANGED <<price_checks, faults>>
       \/ /\ StoreFault
          /\ Crash
          /\ UNCHANGED <<products, committed>>
    /\ close_raised' = FALSE
    /\ UNCHANGED <<items, run_id, ts, idx, target_id, handles, closed, data,
                   lowest_new_raw, lowest_new_gbp, best_raw, best_gbp, it,
                   evals, scrolls, at_end, seen, scan, exc, propagating,
                   results, qres>>
    /\ UNCHANGED <<slept, afterLoop>>
    /\ UNCHANGED elsewhere

\* Raise with no handler around the product: the exception ends the run
RaiseUncaught(e) ==
    /\ exc' = e
    /\ pc' = "crashed"

\* an exception reaches the except block of the product
Raise(e) ==
    /\ exc' = e
    /\ pc' = "except"

\* target_id = openclaw_browser_open(...); rand_sleep(...): the sleep is
\* skipped when the call raises
Open ==
    /\ pc = "open"
    /\ \/ /\ handles' = handles + 1
          /\ target_id' = handles + 1
          /\ pc' = "eval_product"
          /\ slept' = TRUE
          /\ UNCHANGED exc
       \/ /\ \E e \in BrowserErrLens : Raise(e)
          /\ slept' = FALSE
          /\ UNCHANGED <<handles, target_id>>
    /\ UNCHANGED <<items, run_id, ts, price_checks, committed, products, idx,
                   close_raised, closed, data, lowest_new_raw,
                   lowest_new_gbp, best_raw, best_gbp, it, evals, scrolls,
                   at_end, seen, scan, propagating, results, faults, qres>>
    /\ UNCHANGED afterLoop
    /\ UNCHANGED elsewhere

\* data = openclaw_browser_eval_product(target_id); rand_sleep(...);
\* title, buybox_raw, buybox_gbp, offers_url; lowest_new_* = None
EvalProduct ==
    /\ pc = "eval_product"
    /\ \/ \E t \in Titles, b \in BuyboxTexts, o \in BOOLEAN :
            /\ data' = [title |-> t, buyboxPrice |-> b, offersUrl |-> o]
            /\ pc' = IF o THEN "navigate" ELSE "store"
            /\ scan' = IF o THEN "none" ELSE "nolink"
            /\ slept' = TRUE
            /\ UNCHANGED exc
       \/ /\ \E e \in BrowserErrLens : Raise(e)
          /\ slept' = FALSE
          /\ UNCHANGED <<data, scan>>
    /\ UNCHANGED <<items, run_id, ts, price_checks, committed, products, idx,
                   target_id, handles, close_raised, closed, lowest_new_raw,
                   lowest_new_gbp, best_raw, best_gbp, it, evals, scrolls,
                   at_end, seen, propagating, results, faults, qres>>
    /\ UNCHANGED afterLoop
    /\ UNCHANGED elsewhere

\* ScanFailed keeping what the scan had found before it failed
ScanFailedKeepsBest ==
    /\ lowest_new_raw' = best_raw
    /\ lowest_new_gbp' = best_gbp
    /\ scan' = "failed"
    /\ pc' = "store"

\* except Exception of the offer scan: "ignore and fall back to buybox"
ScanFailed ==
    /\ lowest_new_raw' = NoText
    /\ lowest_new_gbp' = NoAmount
    /\ scan' = "failed"
    /\ pc' = "store"

\* openclaw_browser_navigate(target_id, offers_url); rand_sleep(...);
\* best_raw = None; best_gbp = None
Navigate ==
    /\ pc = "navigate"
    /\ \/ /\ pc' = "scan_eval"
          /\ best_raw' = NoText
          /\ best_gbp' = NoAmount
          /\ slept' = TRUE
          /\ UNCHANGED <<lowest_new_raw, lowest_new_gbp, scan>>
       \/ /\ ScanFailed
          /\ slept' = FALSE
          /\ UNCHANGED <<best_raw, best_gbp>>
    /\ UNCHANGED <<items, run_id, ts, price_checks, committed, products, idx,
                   target_id, handles, close_raised, closed, data, it, evals,
                   scrolls, at_end, seen, exc, propagating, results, faults,
                   qres>>
    /\ UNCHANGED afterLoop
    /\ UNCHANGED elsewhere

\* BestAfter keeping only the current snapshot's candidate
BestAfterSnapshot(bgbp, braw, craw) ==
    [gbp |-> parse_price_gbp(craw), raw |-> craw]

\* the update of the running minimum in the scan loop
BestAfter(bgbp, braw, craw) ==
    LET cand_gbp == parse_price_gbp(craw)
    IN  IF cand_gbp # NoAmount /\ (bgbp = NoAmount \/ cand_gbp < bgbp)
          THEN [gbp |-> cand_gbp, raw |-> craw]
          ELSE [gbp |-> bgbp, raw |-> braw]

\* od = openclaw_browser_eval_lowest_new_offer(target_id); cand_raw, cand_gbp;
\* if cand_gbp is not None and (best_gbp is None or cand_gbp < best_gbp): ...
ScanEval ==
    /\ pc = "scan_eval"
    /\ evals' = evals + 1
    /\ slept' = FALSE
    /\ \/ \E cand_raw \in OfferTexts :
            LET b == BestAfter(best_gbp, best_raw, cand_raw)
                c == parse_price_gbp(cand_raw)
            IN  /\ best_gbp' = b.gbp
                /\ best_raw' = b.raw
                /\ seen' = IF c = NoAmount THEN seen ELSE seen \cup {c}
                /\ pc' = "scan_scroll"
                /\ UNCHANGED <<lowest_new_raw, lowest_new_gbp, scan>>
       \/ /\ ScanFailed
          /\ UNCHANGED <<best_raw, best_gbp, seen>>
    /\ UNCHANGED <<items, run_id, ts, price_checks, committed, products, idx,
                   target_id, handles, close_raised, closed, data, it,
                   scrolls, at_end, exc, propagating, results, faults, qres>>
    /\ UNCHANGED afterLoop
    /\ UNCHANGED elsewhere

\* LoopEnds without the break
LoopEndsNoBreak(done, atEnd) == done >= MaxScanIters

\* whether the scan loop is left after a scroll: range(4) is used up, or
\* if sc.get("atEnd"): break
LoopEnds(done, atEnd) == atEnd \/ done >= MaxScanIters

\* sc = openclaw_browser_scroll_more(target_id); rand_sleep(...);
\* if sc.get("atEnd"): break; after the loop lowest_new_* = best_*
ScanScroll ==
    /\ pc = "scan_scroll"
    /\ scrolls' = scrolls + 1
    /\ \/ \E atEnd \in BOOLEAN :
            /\ at_end' = atEnd
            /\ it' = it + 1
            /\ IF LoopEnds(it + 1, atEnd)
                 THEN /\ lowest_new_raw' = best_raw
                      /\ lowest_new_gbp' = best_gbp
                      /\ scan' = "done"
                      /\ pc' = "store"
                 ELSE /\ pc' = "scan_eval"
                      /\ UNCHANGED <<lowest_new_raw, lowest_new_gbp, scan>>
            /\ slept' = TRUE
       \/ /\ ScanFailed
          /\ slept' = FALSE
          /\ UNCHANGED <<it, at_end>>
    /\ UNCHANGED <<items, run_id, ts, price_checks, committed, products, idx,
                   target_id, handles, close_raised, closed, data, best_raw,
                   best_gbp, evals, seen, exc, propagating, results, faults,
                   qres>>
    /\ UNCHANGED afterLoop
    /\ UNCHANGED elsewhere

\* best_raw, best_gbp and the counters of the scan are not read after the scan
ScanLocalsDead ==
    /\ best_raw' = NoText
    /\ best_gbp' = NoAmount
    /\ it' = 0
    /\ evals' = 0
    /\ scrolls' = 0
    /\ at_end' = FALSE
    /\ seen' = {}

\* price_raw, price_gbp, price_source; ok = bool(title); store_check(...)
StoreCheck ==
    /\ pc = "store"
    /\ \/ /\ price_checks' =
               Insert(price_checks,
                      NormalRow(run_id, ts, item, data, lowest_new_raw,
                                lowest_new_gbp))
          /\ pc' = "commit"
          /\ UNCHANGED <<exc, faults>>
       \/ /\ StoreFault
          /\ \E e \in StoreErrLens : Raise(e)
          /\ UNCHANGED price_checks
    /\ ScanLocalsDead
    /\ UNCHANGED <<items, run_id, ts, committed, products, idx, target_id,
                   handles, close_raised, closed, data, lowest_new_raw,
                   lowest_new_gbp, scan, propagating, results, qres>>
    /\ UNCHANGED <<slept, afterLoop>>
    /\ UNCHANGED elsewhere

\* the table after a commit that raised: the pending rows stay in the open
\* transaction, or the engine has rolled the transaction back
AfterFailedCommit == {price_checks, Durable}

\* conn.commit(); results.append({...}) of the try block
Commit ==
    /\ pc = "commit"
    /\ \/ /\ committed' = Len(price_checks)
          /\ results' =
               Append(results,
                      NormalResult(item, data, lowest_new_raw, lowest_new_gbp))
          /\ pc' = "finally"
          /\ UNCHANGED <<price_checks, exc, faults>>
       \/ /\ StoreFault
          /\ \E e \in StoreErrLens : Raise(e)
          /\ price_checks' \in AfterFailedCommit
          /\ UNCHANGED <<committed, results>>
    /\ UNCHANGED <<items, run_id, ts, products, idx, target_id, handles,
                   close_raised, closed, data, lowest_new_raw,
                   lowest_new_gbp, best_raw, best_gbp, it, evals, scrolls,
                   at_end, seen, scan, propagating, qres>>
    /\ UNCHANGED <<slept, afterLoop>>
    /\ UNCHANGED elsewhere

\* except Exception as e: store_check(..., price_source="error", ...)
ExceptStore ==
    /\ pc = "except"
    /\ \/ /\ price_checks' =
               Insert(price_checks, ErrorRow(run_id, ts, item, exc))
          /\ pc' = "except_commit"
          /\ UNCHANGED <<propagating, faults>>
       \/ /\ StoreFault
          /\ propagating' = TRUE
          /\ pc' = "finally"
          /\ UNCHANGED price_checks
    /\ UNCHANGED <<items, run_id, ts, committed, products, idx, target_id,
                   handles, close_raised, closed, data, lowest_new_raw,
                   lowest_new_gbp, best_raw, best_gbp, it, evals, scrolls,
                   at_end, seen, scan, exc, results, qres>>
    /\ UNCHANGED <<slept, afterLoop>>
    /\ UNCHANGED elsewhere

\* conn.commit(); results.append({...}) of the except block
ExceptCommit ==
    /\ pc = "except_commit"
    /\ \/ /\ committed' = Len(price_checks)
          /\ results' = Append(results, ErrorResult(item, exc))
          /\ pc' = "finally"
          /\ UNCHANGED <<price_checks, propagating, faults>>
       \/ /\ StoreFault
          /\ propagating' = TRUE
          /\ price_checks' \in AfterFailedCommit
          /\ pc' = "finally"
          /\ UNCHANGED <<committed, results>>
    /\ UNCHANGED <<items, run_id, ts, products, idx, target_id, handles,
                   close_raised, closed, data, lowest_new_raw,
                   lowest_new_gbp, best_raw, best_gbp, it, evals, scrolls,
                   at_end, seen, scan, exc, qres>>
    /\ UNCHANGED <<slept, afterLoop>>
    /\ UNCHANGED elsewhere

\* CloseGuard of a cleanup that runs only when no exception is propagating
CloseGuardUnlessPropagating(t) == t # 0 /\ ~propagating

\* the guard of the cleanup: 'target_id' in locals() and target_id
CloseGuard(t) == t # 0

\* finally: openclaw_browser_close(target_id), whose failure is swallowed;
\* then the exception propagates, or the loop goes on, or the loop is over
Finally ==
    /\ pc = "finally"
    /\ IF CloseGuard(target_id)
         THEN /\ closed' = Append(closed, target_id)
              /\ close_raised' \in BOOLEAN
         ELSE UNCHANGED <<closed, close_raised>>
    /\ IF propagating
         THEN /\ Crash
              /\ UNCHANGED idx
         ELSE /\ UNCHANGED price_checks
              /\ IF idx < Len(items)
                   THEN idx' = idx + 1 /\ pc' = "upsert"
                   ELSE idx' = idx /\ pc' = "digest"
    /\ ResetLocals
    /\ UNCHANGED <<items, run_id, ts, committed, products, target_id,
                   handles, results, faults, qres>>
    /\ UNCHANGED <<slept, afterLoop>>
    /\ UNCHANGED elsewhere

\* Qualifying without the ok = 1 condition
QualifyingAnyOk(rows, asin) ==
    {i \in 1..Len(rows) :
        rows[i].asin = asin /\ rows[i].price_gbp # NoAmount}

\* WHERE asin = ? AND ok = 1 AND price_gbp IS NOT NULL
Qualifying(rows, asin) ==
    {i \in 1..Len(rows) :
        /\ rows[i].asin = asin
        /\ rows[i].ok
        /\ rows[i].price_gbp # NoAmount}

\* SELECT MIN(price_gbp) FROM price_checks WHERE ... AND day < ?
\* ORDER BY day DESC LIMIT 1: an aggregate without GROUP BY yields one row,
\* the minimum over every row the WHERE keeps; ORDER BY and LIMIT then act
\* on that single row
yesterday_min(rows, asin, today) ==
    LET kept == {i \in Qualifying(rows, asin) : rows[i].day < today}
    IN  IF kept = {} THEN NoAmount
        ELSE Min({rows[i].price_gbp : i \in kept})

\* ORDER BY day DESC
RECURSIVE DescSeq(_)
DescSeq(S) == IF S = {} THEN <<>> ELSE <<Max(S)>> \o DescSeq(S \ {Max(S)})

\* LIMIT ?: a negative limit is no limit
Limit(q, n) == IF n < 0 \/ n >= Len(q) THEN q ELSE SubSeq(q, 1, n)

\* SELECT day, MIN(price_gbp) ... GROUP BY day ORDER BY day DESC LIMIT ?
daily_min_prices(rows, asin, limit_days) ==
    LET kept == Qualifying(rows, asin)
        days == Limit(DescSeq({rows[i].day : i \in kept}), limit_days)
    IN  [k \in 1..Len(days) |->
           <<days[k],
             Min({rows[i].price_gbp : i \in {j \in kept : rows[j].day = days[k]}})>>]

\* priced = [r for r in results if r.get("price_gbp") is not None]
priced(res) == SelectSeq(res, LAMBDA r : r.price_gbp # NoAmount)

\* the position of the first cheapest entry of q
FirstCheapest(q) ==
    CHOOSE i \in 1..Len(q) :
        /\ \A j \in 1..Len(q) : q[i].price_gbp <= q[j].price_gbp
        /\ \A j \in 1..(i - 1) : q[j].price_gbp > q[i].price_gbp

\* SortByPrice leaving the list in the order of the watchlist
KeepOrder(q) == q

\* priced.sort(key=lambda r: r["price_gbp"]): the sort is stable
RECURSIVE SortByPrice(_)
SortByPrice(q) == IF q = <<>> THEN <<>> ELSE LET i == FirstCheapest(q) IN <<q[i]>> \o SortByPrice(SubSeq(q, 1, i - 1) \o SubSeq(q, i + 1, Len(q)))

\* one line of the digest; the label, url and ccc lines of the best deal are
\* folded into the "best" line
Line(kind, asin, amount) == [kind |-> kind, asin |-> asin, amount |-> amount]

\* the lines main() appends after the loop, in order, up to the history
\* section; the history and DB lines, which no property reads, are left out
DigestLines(res) ==
    LET p == SortByPrice(priced(res))
        shown == IF Len(p) < TopN THEN Len(p) ELSE TopN
    IN  <<Line("header", "", NoAmount)>>
        \o (IF p # <<>>
              THEN <<Line("best", p[1].asin, p[1].price_gbp)>>
              ELSE <<Line("error", "", NoAmount)>>)
        \o [k \in 1..shown |-> Line("current", p[k].asin, p[k].price_gbp)]

\* the code between the loop and the delivery; the daily_min_prices calls
\* of the history section may raise.
\* The exception the last close may have raised was swallowed in the loop.
Digest ==
    /\ pc = "digest"
    /\ close_raised' = FALSE
    /\ \/ /\ lines' = DigestLines(results)
          /\ pc' = "deliver"
          /\ UNCHANGED <<price_checks, faults>>
       \/ /\ StoreFault
          /\ Crash
          /\ UNCHANGED lines
    /\ UNCHANGED <<items, run_id, ts, committed, products, idx, target_id,
                   handles, closed, data, lowest_new_raw,
                   lowest_new_gbp, best_raw, best_gbp, it, evals, scrolls,
                   at_end, seen, scan, exc, propagating, results, qres,
                   slept, delivered>>
    /\ UNCHANGED elsewhere

\* if args.dry_run: print(msg) else: send_message(...), which raises when
\* the openclaw command fails
Deliver ==
    /\ pc = "deliver"
    /\ \E dry_run \in BOOLEAN, sent \in BOOLEAN :
          /\ delivered' =
               Append(delivered,
                      IF dry_run \/ sent THEN "delivered" ELSE "send_failed")
          /\ IF dry_run \/ sent
               THEN pc' = "done" /\ UNCHANGED price_checks
               ELSE Crash
    /\ UNCHANGED <<items, run_id, ts, committed, products, idx, target_id,
                   handles, close_raised, closed, data, lowest_new_raw,
                   lowest_new_gbp, best_raw, best_gbp, it, evals, scrolls,
                   at_end, seen, scan, exc, propagating, results, faults,
                   qres, slept, lines>>
    /\ UNCHANGED elsewhere

Next ==
    \/ BrowserStart
    \/ UpsertProduct
    \/ Open
    \/ EvalProduct
    \/ Navigate
    \/ ScanEval
    \/ ScanScroll
    \/ StoreCheck
    \/ Commit
    \/ ExceptStore
    \/ ExceptCommit
    \/ Finally
    \/ Digest
    \/ Deliver

Spec == Init /\ [][Next]_vars

----------------------------------------------------------------------------
(* History queries *)

\* the rows one product check can leave at timestamp t
RowsAt(t, asin) ==
    {NormalRow(t, t, asin,
               [title |-> title, buyboxPrice |-> q[1],
                offersUrl |-> q[2] # NoText],
               q[2], parse_price_gbp(q[2])) :
        title \in Titles,
        q \in {<<NoText, NoText>>, <<T1050, NoText>>, <<T1050, T950>>}}
    \cup {ErrorRow(t, t, asin, e) : e \in BrowserErrLens}

RowKinds == UNION {RowsAt(t, a) : t \in 0..MaxTs, a \in Asins}

\* the tables of at most n rows; rows are inserted in the order of the clock
RECURSIVE Stores(_)
Stores(n) ==
    IF n = 0 THEN {<<>>}
    ELSE LET shorter == Stores(n - 1)
             more == {p \in shorter \X RowKinds :
                         p[1] = <<>> \/ p[1][Len(p[1])].ts <= p[2].ts}
         IN  shorter \cup {Append(p[1], p[2]) : p \in more}

InitHist ==
    /\ items = <<"A">>
    /\ run_id = MaxTs + 1
    /\ ts = MaxTs
    /\ price_checks \in Stores(MaxRows)
    /\ committed = Len(price_checks)
    /\ products = {price_checks[i].asin : i \in 1..Len(price_checks)}
    /\ pc = "query"
    /\ idx = 1
    /\ target_id = 0
    /\ handles = 0
    /\ close_raised = FALSE
    /\ closed = <<>>
    /\ Locals
    /\ results = <<>>
    /\ faults = 0
    /\ qres = NoQuery
    /\ slept = TRUE
    /\ lines = <<>>
    /\ delivered = <<>>
    /\ columns = AllColumns
    /\ text = NoText
    /\ parsed = NoAmount
    /\ WatcherIdle

\* yesterday_min(conn, asin, today)
YesterdayMin ==
    /\ pc = "query"
    /\ pc' = "answered"
    /\ \E a \in Asins, today \in 0..local_day(MaxTs) :
          qres' = [op |-> "yesterday_min", asin |-> a, today |-> today,
                   limit |-> 0, hist |-> <<>>,
                   value |-> yesterday_min(price_checks, a, today)]
    /\ UNCHANGED <<items, run_id, ts, price_checks, committed, products,
                   idx, target_id, handles, close_raised, closed, data,
                   lowest_new_raw, lowest_new_gbp, best_raw, best_gbp, it,
                   evals, scrolls, at_end, seen, scan, exc, propagating,
                   results, faults>>
    /\ UNCHANGED beyondHist
    /\ UNCHANGED elsewhere

\* daily_min_prices(conn, asin, limit_days)
DailyMinPrices ==
    /\ pc = "query"
    /\ pc' = "answered"
    /\ \E a \in Asins, n \in 0..MaxLimit :
          qres' = [op |-> "daily_min_prices", asin |-> a, today |-> 0,
                   limit |-> n, value |-> NoAmount,
                   hist |-> daily_min_prices(price_checks, a, n)]
    /\ UNCHANGED <<items, run_id, ts, price_checks, committed, products,
                   idx, target_id, handles, close_raised, closed, data,
                   lowest_new_raw, lowest_new_gbp, best_raw, best_gbp, it,
                   evals, scrolls, at_end, seen, scan, exc, propagating,
                   results, faults>>
    /\ UNCHANGED beyondHist
    /\ UNCHANGED elsewhere

NextHist ==
    \/ YesterdayMin
    \/ DailyMinPrices

SpecHist == InitHist /\ [][NextHist]_vars

----------------------------------------------------------------------------
(* init_db and the writes of the runs, over a store that outlives them *)

\* the variables of main() outside the store and the position of the run
mainLocals ==
    <<items, run_id, ts, target_id, handles, close_raised, closed, data,
      lowest_new_raw, lowest_new_gbp, best_raw, best_gbp, it, evals, scrolls,
      at_end, seen, scan, exc, propagating, results, faults, qres, slept,
      lines, delivered>>

\* rows an earlier version of the script has left in the store
OldRowKinds == {PriorRow, ErrorRow(0, 0, "B", 400)}

\* rows a run stores: of a product with its title, or of a failed fetch
RunRowKinds ==
    {r \in UNION {RowsAt(MaxTs, a) : a \in Asins} :
        r.ok \/ r.price_source = "error"}

\* the price_checks tables init_db can find: none, or one with the base
\* columns and any of the optional ones
OldColumns ==
    {{}} \cup {BaseColumns \cup S :
                S \in SUBSET {OptionalColumns[k] : k \in 1..Len(OptionalColumns)}}

InitStore ==
    /\ items = <<"A">>
    /\ run_id = 1
    /\ ts = MaxTs
    /\ columns \in OldColumns
    /\ price_checks \in
          IF columns = {} THEN {<<>>}
          ELSE {[i \in 1..Len(q) |-> Project(q[i], columns)] :
                  q \in SeqsUpTo(OldRowKinds, MaxOldRows)}
    /\ committed = Len(price_checks)
    /\ products = {price_checks[i].asin : i \in 1..Len(price_checks)}
    /\ pc = "closed"
    /\ idx = 1
    /\ target_id = 0
    /\ handles = 0
    /\ close_raised = FALSE
    /\ closed = <<>>
    /\ Locals
    /\ results = <<>>
    /\ faults = 0
    /\ qres = NoQuery
    /\ slept = TRUE
    /\ lines = <<>>
    /\ delivered = <<>>
    /\ text = NoText
    /\ parsed = NoAmount
    /\ WatcherIdle

\* the variables init_db and the writes of the runs leave alone
beyondStore == <<mainLocals, text, parsed, watcherVars>>

\* sqlite3.connect; CREATE TABLE IF NOT EXISTS products, price_checks
CreateTables ==
    /\ pc = "closed"
    /\ columns' = IF columns = {} THEN BaseColumns ELSE columns
    /\ pc' = "ensure"
    /\ idx' = 1
    /\ UNCHANGED <<price_checks, committed, products, beyondStore>>

\* one _ensure_column call of init_db; after the last one the indexes are
\* created, conn.commit() is called and the connection is returned
EnsureColumn ==
    /\ pc = "ensure"
    /\ LET e == ensure_column(columns, price_checks, OptionalColumns[idx])
       IN  /\ columns' = e.columns
           /\ price_checks' = e.rows
    /\ committed' = Len(price_checks')
    /\ IF idx < Len(OptionalColumns)
         THEN idx' = idx + 1 /\ pc' = "ensure"
         ELSE idx' = 1 /\ pc' = "ready"
    /\ UNCHANGED <<products, beyondStore>>

\* upsert_product(conn, asin, label); conn.commit()
RunUpsert ==
    /\ pc = "ready"
    /\ \E a \in Asins : products' = products \cup {a}
    /\ committed' = Len(price_checks)
    /\ UNCHANGED <<price_checks, columns, pc, idx, beyondStore>>

\* store_check(conn, ...) of a run
RunStoreCheck ==
    /\ pc = "ready"
    /\ Len(price_checks) < MaxStoreRows
    /\ \E r \in RunRowKinds : price_checks' = Insert(price_checks, r)
    /\ UNCHANGED <<committed, products, columns, pc, idx, beyondStore>>

\* conn.commit() of a run
RunCommit ==
    /\ pc = "ready"
    /\ committed < Len(price_checks)
    /\ committed' = Len(price_checks)
    /\ UNCHANGED <<price_checks, products, columns, pc, idx, beyondStore>>

\* the process ends, in init_db or later: what was not committed is lost
RunEnds ==
    /\ pc \in {"ensure", "ready"}
    /\ pc' = "closed"
    /\ idx' = 1
    /\ price_checks' = Durable
    /\ UNCHANGED <<committed, products, columns, beyondStore>>

NextStore ==
    \/ CreateTables
    \/ EnsureColumn
    \/ RunUpsert
    \/ RunStoreCheck
    \/ RunCommit
    \/ RunEnds

SpecStore == InitStore /\ [][NextStore]_vars

----------------------------------------------------------------------------
(* parse_price_gbp on its own *)

\* the characters of the texts: digits, the decimal point, the thousands
\* separator, the currency sign and a blank
Alphabet == {"1", "5", ".", ",", "£", " "}

\* str | None, the strings of at most n characters
Texts(n) == {NoText} \cup SeqsUpTo(Alphabet, n)

InitParse ==
    /\ items = <<"A">>
    /\ run_id = 1
    /\ ts = MaxTs
    /\ price_checks = <<>>
    /\ committed = 0
    /\ products = {}
    /\ pc = "parse"
    /\ idx = 1
    /\ target_id = 0
    /\ handles = 0
    /\ close_raised = FALSE
    /\ closed = <<>>
    /\ Locals
    /\ results = <<>>
    /\ faults = 0
    /\ qres = NoQuery
    /\ slept = TRUE
    /\ lines = <<>>
    /\ delivered = <<>>
    /\ columns = AllColumns
    /\ text \in Texts(MaxTextLen)
    /\ parsed = NoAmount
    /\ WatcherIdle

\* parsed = parse_price_gbp(text)
ParsePrice ==
    /\ pc = "parse"
    /\ pc' = "parsed"
    /\ parsed' = parse_price_gbp(text)
    /\ UNCHANGED <<mainLocals, price_checks, committed, products, idx,
                   columns, text, watcherVars>>

NextParse == ParsePrice

SpecParse == InitParse /\ [][NextParse]_vars

----------------------------------------------------------------------------
(* btc_watcher.py: the runs of main() that share one state file.  The keys  *)
(* of the state file that main() never reads back (lastFetchError,         *)
(* lastNonSignificantTs, lastAlertChangePct, the prices) are left out.     *)

\* snap.change_24h_pct_usd, in percent; NoChange is None
NoChange == 0
Changes == {0 - 12, 0 - 5, 5, 12}

Abs(x) == IF x < 0 THEN 0 - x ELSE x

\* sign = 1 if change > 0 else -1
SignOf(change) == IF change > 0 THEN 1 ELSE 0 - 1

\* eligible = (now_ts() - last_alert_ts) >= cooldown_s
Eligible(t, st) == (t - st.lastAlertTs) >= CooldownS

\* MayAlert as the comment above the threshold test words it
MayAlertAsCommented(change, t, st) ==
    /\ Abs(change) >= Threshold
    /\ Eligible(t, st)
    /\ st.lastAlertSign # SignOf(change)

\* whether main() goes on to the message: not (abs(change) < threshold) and
\* not (not eligible and last_alert_sign == sign)
MayAlert(change, t, st) ==
    /\ ~(Abs(change) < Threshold)
    /\ ~(~Eligible(t, st) /\ st.lastAlertSign = SignOf(change))

InitBtc ==
    /\ items = <<"A">>
    /\ run_id = 1
    /\ ts = MaxTs
    /\ price_checks = <<>>
    /\ committed = 0
    /\ products = {}
    /\ pc = "cron"
    /\ idx = 1
    /\ target_id = 0
    /\ handles = 0
    /\ close_raised = FALSE
    /\ closed = <<>>
    /\ Locals
    /\ results = <<>>
    /\ faults = 0
    /\ qres = NoQuery
    /\ slept = TRUE
    /\ lines = <<>>
    /\ delivered = <<>>
    /\ columns = AllColumns
    /\ text = NoText
    /\ parsed = NoAmount
    /\ now = CooldownS
    /\ state = NoState
    /\ last_run = NoRun

\* the variables btc_watcher.py leaves alone
beyondWatcher ==
    <<mainLocals, price_checks, committed, products, pc, idx, columns, text,
      parsed>>

\* time passes between two runs of the cron job
Tick ==
    /\ now < MaxNow
    /\ now' = now + 1
    /\ UNCHANGED <<state, last_run, beyondWatcher>>

\* one run of main(): the fetch fails or has no change (return), or the
\* change is tested, the message sent or printed, and the state saved
WatcherRun ==
    /\ \E fetched \in BOOLEAN, change \in Changes \cup {NoChange} :
       \E dry_run \in BOOLEAN, sent \in BOOLEAN :
          LET alerting == fetched /\ change # NoChange /\ MayAlert(change, now, state)
              outcome == IF ~alerting THEN "none"
                         ELSE IF dry_run THEN "printed"
                         ELSE IF sent THEN "sent" ELSE "send_failed"
          IN  /\ last_run' = [change |-> IF fetched THEN change ELSE NoChange,
                              at |-> now, before |-> state, alert |-> outcome]
              /\ state' = IF outcome \in {"printed", "sent"}
                            THEN [lastAlertTs |-> now, lastAlertSign |-> SignOf(change)]
                            ELSE state
    /\ UNCHANGED <<now, beyondWatcher>>

NextBtc ==
    \/ Tick
    \/ WatcherRun

SpecBtc == InitBtc /\ [][NextBtc]_vars

----------------------------------------------------------------------------
(* Properties *)

Range(q) == {q[i] : i \in 1..Len(q)}
ThisRun == {i \in 1..Len(price_checks) : price_checks[i].run_id = run_id}
LastRow == price_checks[Len(price_checks)]
LastResult == results[Len(results)]
ScanPcs == {"navigate", "scan_eval", "scan_scroll"}
LoopPcs == {"scan_eval", "scan_scroll"}
MinOrNone(S) == IF S = {} THEN NoAmount ELSE Min(S)

Priority(offer, buybox, amount, source) ==
    IF offer # NoAmount
      THEN amount = offer /\ source = "lowest_new_offer"
    ELSE IF buybox # NoAmount
      THEN amount = buybox /\ source = "buybox"
    ELSE amount = NoAmount /\ source = "none"

ErrorShaped(r) ==
    /\ r.price_gbp = NoAmount
    /\ r.buybox_price_gbp = NoAmount
    /\ r.lowest_new_price_gbp = NoAmount
    /\ r.price_source = "error"
    /\ ~r.ok
    /\ r.error # NoError

\* C1: a product check that completes without an exception stores and reports
\* the offer amount with source lowest_new_offer whenever the scan produced
\* one (also when the buy-box amount is lower), else the buy-box amount with
\* source buybox when there is one, else no amount with source none.
C1_PriorityStep ==
    /\ (pc = "store" /\ pc' = "commit") =>
          LET r == price_checks'[Len(price_checks')]
              b == parse_price_gbp(data.buyboxPrice)
          IN  /\ r.lowest_new_price_gbp = lowest_new_gbp
              /\ r.buybox_price_gbp = b
              /\ Priority(lowest_new_gbp, b, r.price_gbp, r.price_source)
    /\ (pc = "commit" /\ pc' = "finally") =>
          LET e == results'[Len(results')]
              b == parse_price_gbp(data.buyboxPrice)
          IN  Priority(lowest_new_gbp, b, e.price_gbp, e.price_source)

C1_PriorityPolicy == [][C1_PriorityStep]_vars

\* a completed check whose offer amount won over a lower buy-box amount
C1_Witness ==
    /\ pc = "finally"
    /\ exc = 0
    /\ LastRow.run_id = run_id
    /\ LastRow.price_source = "lowest_new_offer"
    /\ LastRow.buybox_price_gbp # NoAmount
    /\ LastRow.buybox_price_gbp < LastRow.price_gbp
    /\ LastResult.price_gbp = LastRow.price_gbp

\* C2: when the run reaches the digest, the table holds exactly one row of
\* this run for each product of the watchlist (a product listed k times is
\* counted k times, the reading most favourable to the code).
C2_OneRowPerProduct ==
    pc = "digest" =>
       \A a \in Range(items) :
          Cardinality({i \in ThisRun : price_checks[i].asin = a})
            = Cardinality({k \in 1..Len(items) : items[k] = a})

\* C3 as claimed: every row of this run without a title (title extraction
\* failed, or the fetch raised) has all price fields null, source error,
\* success false and an error message.
C3_TotalFailureRowsAreErrorRows ==
    \A i \in ThisRun :
       price_checks[i].title = NoTitle => ErrorShaped(price_checks[i])

\* C3 amended: when the page fetch raised, the row the handler stores has all
\* price fields null, source error, success false and the message cut to 300
\* characters; when the page loaded without a title the row has success false
\* and error "missing-title", and keeps the prices and the source of the
\* normal resolution.
C3_FailureStep ==
    /\ (pc \in {"open", "eval_product"} /\ pc' # pc) =>
          pc' \in {"eval_product", "navigate", "store", "except"}
    /\ pc = "except" =>
          \/ price_checks' = price_checks
          \/ /\ pc' = "except_commit"
             /\ price_checks' = Append(price_checks, LastRow')
             /\ LastRow'.asin = item
             /\ LastRow'.run_id = run_id
             /\ ErrorShaped(LastRow')
             /\ LastRow'.error <= 300
             /\ LastRow'.error = (IF exc > 300 THEN 300 ELSE exc)
    /\ (pc = "store" /\ pc' = "commit" /\ data.title = "") =>
          /\ ~LastRow'.ok
          /\ LastRow'.title = NoTitle
          /\ LastRow'.error = MissingTitleLen
          /\ LastRow'.price_source \in {"lowest_new_offer", "buybox", "none"}
          /\ LastRow'.buybox_price_gbp = parse_price_gbp(data.buyboxPrice)
          /\ LastRow'.lowest_new_price_gbp = lowest_new_gbp

C3_FetchFailureRows == [][C3_FailureStep]_vars

\* a run that stored a truncated error row and a priced row without a title
C3_Witness ==
    \E i, j \in ThisRun :
       /\ ErrorShaped(price_checks[i])
       /\ price_checks[i].error = RowErrLen
       /\ price_checks[j].title = NoTitle
       /\ price_checks[j].error = MissingTitleLen
       /\ price_checks[j].price_gbp # NoAmount

\* C4 as claimed: in every row, source = none iff the resolved amount is null.
C4_NoneIffNull ==
    \A i \in 1..Len(price_checks) :
       (price_checks[i].price_source = "none")
         <=> (price_checks[i].price_gbp = NoAmount)

\* C4 amended: in every row, the resolved amount is null iff the source is
\* none or error (error on the rows of the exception path).
C4_NullIffNoneOrError ==
    \A i \in 1..Len(price_checks) :
       (price_checks[i].price_gbp = NoAmount)
         <=> (price_checks[i].price_source \in {"none", "error"})

\* a run that stored a row with source none and a row with source error
C4_Witness ==
    \E i, j \in ThisRun :
       /\ price_checks[i].price_source = "none"
       /\ price_checks[i].price_gbp = NoAmount
       /\ price_checks[j].price_source = "error"
       /\ price_checks[j].price_gbp = NoAmount

\* C5: the offer scan runs only when the page exposes an offers link; without
\* a link, or when a step of the scan fails, control never reaches the
\* exception handler of the product, and the row then stored is no error row,
\* has no lowest-new-offer amount, has source buybox when there is a buy-box
\* amount and none otherwise, and has success = (title obtained).
C5_DegradeStep ==
    /\ pc \in ScanPcs => data.offersUrl
    /\ pc \in ScanPcs => pc' \in ScanPcs \cup {"store"}
    /\ (pc \in ScanPcs /\ scan' = "failed") =>
          lowest_new_gbp' = NoAmount /\ lowest_new_raw' = NoText
    /\ (pc = "store" /\ scan \in {"nolink", "failed"} /\ pc' = "commit") =>
          LET r == price_checks'[Len(price_checks')]
              b == parse_price_gbp(data.buyboxPrice)
          IN  /\ r.price_source # "error"
              /\ r.lowest_new_price_gbp = NoAmount
              /\ r.lowest_new_price_raw = NoText
              /\ r.price_source = (IF b # NoAmount THEN "buybox" ELSE "none")
              /\ r.price_gbp = b
              /\ r.ok = (data.title # "")

C5_OfferScanDegrades == [][C5_DegradeStep]_vars

\* a scan that failed after it had found an offer, and the buy-box row stored
C5_Witness ==
    /\ pc = "commit"
    /\ scan = "failed"
    /\ LastRow.run_id = run_id
    /\ LastRow.price_source = "buybox"
    /\ LastRow.lowest_new_price_gbp = NoAmount

\* C6: an exception of a browser call made for a product never ends the run;
\* the handler appends one error result for that product and leaves the
\* earlier results alone; the results list follows the watchlist, and holds
\* one entry per item in watchlist order when the loop is over.
ResultsFollowItems ==
    /\ Len(results) <= Len(items)
    /\ \A i \in 1..Len(results) : results[i].asin = items[i]
    /\ pc = "digest" => Len(results) = Len(items)

C6_IsolationStep ==
    /\ ResultsFollowItems
    /\ ResultsFollowItems'
    /\ (pc \in {"open", "eval_product"} \cup ScanPcs) => pc' # "crashed"
    /\ (pc' = "crashed" /\ pc # "crashed") =>
          (pc \in {"start", "deliver"} \/ faults' >= 1)
    /\ (pc = "except_commit" /\ pc' = "finally" /\ ~propagating') =>
          /\ results' = Append(results, LastResult')
          /\ LastResult'.asin = item
          /\ LastResult'.price_source = "error"
          /\ LastResult'.price_gbp = NoAmount
          /\ ErrorShaped(LastRow)
          /\ LastRow.asin = item
    /\ (pc = "finally" /\ ~propagating) =>
          IF idx < Len(items) THEN pc' = "upsert" /\ idx' = idx + 1
          ELSE pc' = "digest"

C6_FailuresAreIsolated == [][C6_IsolationStep]_vars

\* the first product failed in the browser, the second was processed normally
C6_Witness ==
    /\ pc = "digest"
    /\ faults = 0
    /\ Len(results) = 2
    /\ results[1].price_source = "error"
    /\ results[2].price_source = "buybox"

\* C7: before the next product is opened, before the digest, and when the
\* run dies, every handle that open returned has been passed to close; an
\* exception of close does not stop the loop.
AllClosed == \A h \in 1..handles : h \in Range(closed)

C7_CleanupStep ==
    /\ pc \in {"upsert", "open", "digest", "crashed"} => AllClosed
    /\ pc' \in {"upsert", "open", "digest", "crashed"} => AllClosed'
    /\ (pc = "finally" /\ ~propagating) => pc' \in {"upsert", "digest"}

C7_TabAlwaysClosed == [][C7_CleanupStep]_vars

\* the close of the first product's tab raised and the loop went on
C7_Witness ==
    /\ pc = "upsert"
    /\ idx = 2
    /\ close_raised
    /\ handles = 1
    /\ closed = <<1>>

\* C8: a scan issues at most 4 evaluations and 4 scrolls; when a scroll
\* reports end-of-content the loop is left at once; a scan that ends after
\* iteration k has issued exactly k evaluations and k scrolls, and k < 4
\* only when the last scroll reported end-of-content.
C8_ScanStep ==
    /\ evals <= 4 /\ scrolls <= 4
    /\ evals' <= 4 /\ scrolls' <= 4
    /\ (pc = "scan_scroll" /\ scan' # "failed" /\ at_end') => pc' = "store"
    /\ (pc = "scan_scroll" /\ pc' = "store" /\ scan' = "done") =>
          /\ evals' = it'
          /\ scrolls' = it'
          /\ it' <= 4
          /\ it' < 4 => at_end'
    /\ pc = "store" => pc' \notin ScanPcs

C8_ScanTerminates == [][C8_ScanStep]_vars

\* end-of-content on iteration 2: two evaluations and two scrolls
C8_Witness ==
    /\ pc = "store"
    /\ scan = "done"
    /\ at_end
    /\ it = 2
    /\ evals = 2
    /\ scrolls = 2

\* C9: in the scan loop the running lowest amount is the minimum of the
\* amounts of all candidates returned so far (null when there were none), it
\* never goes up, its raw text parses to it, and it is what the scan yields.
RunningMinOk(gbp, raw, amounts) ==
    /\ gbp = MinOrNone(amounts)
    /\ parse_price_gbp(raw) = gbp
    /\ (gbp = NoAmount) <=> (raw = NoText)

C9_RunningMinStep ==
    /\ pc \in LoopPcs => RunningMinOk(best_gbp, best_raw, seen)
    /\ pc' \in LoopPcs => RunningMinOk(best_gbp', best_raw', seen')
    /\ (pc \in LoopPcs /\ pc' \in LoopPcs /\ best_gbp # NoAmount) =>
          best_gbp' # NoAmount /\ best_gbp' <= best_gbp
    /\ (pc = "scan_scroll" /\ pc' = "store" /\ scan' = "done") =>
          /\ lowest_new_gbp' = MinOrNone(seen)
          /\ parse_price_gbp(lowest_new_raw') = lowest_new_gbp'

C9_RunningMinimum == [][C9_RunningMinStep]_vars

\* both amounts have been returned and the lower one is kept
C9_Witness ==
    /\ pc = "scan_eval"
    /\ it >= 2
    /\ seen = {950, 1200}
    /\ best_gbp = 950
    /\ best_raw = T950

\* C10: the prior-day minimum is the minimum over the qualifying rows of the
\* most recent day before today that has one, null when there is none.
PriorDayMin(rows, asin, today) ==
    LET days == {rows[i].day : i \in Qualifying(rows, asin)}
        before == {d \in days : d < today}
    IN  IF before = {} THEN NoAmount
        ELSE Min({rows[i].price_gbp :
                    i \in {k \in Qualifying(rows, asin) :
                              rows[k].day = Max(before)}})

C10_MostRecentPriorDayOnly ==
    qres.op = "yesterday_min" =>
       qres.value = PriorDayMin(price_checks, qres.asin, qres.today)

\* C11: the daily-minimum query returns one (day, minimum) pair for each of
\* the N most recent days on which the product has a successful row with an
\* amount, newest day first; the minimum is over those rows only, so rows
\* with success = false, rows without an amount and rows of other products
\* neither add a day nor lower a minimum.
GoodRows(asin) ==
    {i \in 1..Len(price_checks) :
        /\ price_checks[i].asin = asin
        /\ price_checks[i].ok = TRUE
        /\ price_checks[i].price_gbp >= 0}

GoodDays(asin) == {price_checks[i].day : i \in GoodRows(asin)}

C11_DailyMinimum ==
    qres.op = "daily_min_prices" =>
       LET h == qres.hist
           good == GoodRows(qres.asin)
           days == GoodDays(qres.asin)
           got == {h[k][1] : k \in 1..Len(h)}
       IN  /\ Len(h) = (IF Cardinality(days) < qres.limit
                          THEN Cardinality(days) ELSE qres.limit)
           /\ \A k \in 1..Len(h) - 1 : h[k][1] > h[k + 1][1]
           /\ got \subseteq days
           /\ \A d \in days \ got : \A e \in got : d < e
           /\ \A k \in 1..Len(h) :
                 /\ \E i \in good : /\ price_checks[i].day = h[k][1]
                                    /\ price_checks[i].price_gbp = h[k][2]
                 /\ \A i \in good : price_checks[i].day = h[k][1]
                                      => h[k][2] <= price_checks[i].price_gbp

\* limit 1 on a product with an older good day and a cheaper newer row that
\* has no title: the answer is the newer day's good row alone
C11_Witness ==
    /\ qres.op = "daily_min_prices"
    /\ qres.limit = 1
    /\ Len(qres.hist) = 1
    /\ Cardinality(GoodDays(qres.asin)) = 2

\* a day whose only good row is dearer than a row of that day without a title
C11_WitnessExcluded ==
    /\ qres.op = "daily_min_prices"
    /\ Len(qres.hist) = 1
    /\ \E i \in 1..Len(price_checks) :
          /\ price_checks[i].asin = qres.asin
          /\ ~price_checks[i].ok
          /\ price_checks[i].day = qres.hist[1][1]
          /\ price_checks[i].price_gbp >= 0
          /\ price_checks[i].price_gbp < qres.hist[1][2]

\* C12: the digest has exactly one of the best-deal line and the error
\* line; the best-deal line names a product of this run whose amount is no
\* higher than that of any other priced result; the error line is there
\* exactly when no result of the run has an amount.
KindCount(kind) == Cardinality({k \in 1..Len(lines) : lines[k].kind = kind})

AmountsOfRun == {results[k].price_gbp : k \in 1..Len(results)} \ {NoAmount}

C12_BestOrError ==
    lines # <<>> =>
       /\ KindCount("best") + KindCount("error") = 1
       /\ KindCount("error") = 1 <=> AmountsOfRun = {}
       /\ \A k \in 1..Len(lines) :
             lines[k].kind = "best" =>
                /\ \E j \in 1..Len(results) :
                      /\ results[j].asin = lines[k].asin
                      /\ results[j].price_gbp = lines[k].amount
                /\ \A a \in AmountsOfRun : lines[k].amount <= a

\* the second product of the watchlist is the cheaper of two priced ones
C12_Witness ==
    /\ delivered # <<>>
    /\ Len(results) = 2
    /\ results[1].price_gbp > results[2].price_gbp
    /\ results[2].price_gbp # NoAmount
    /\ \E k \in 1..Len(lines) :
          lines[k].kind = "best" /\ lines[k].asin = results[2].asin

\* a run in which nothing was priced is delivered with the error line
C12_WitnessError ==
    /\ delivered # <<>>
    /\ KindCount("error") = 1

\* C13: every product named on the best-deal line or in the current-prices
\* list was successfully priced in this run: a row of this run for it has
\* success = true and an amount; a product whose row has success = false is
\* never ranked.
Ranked == {lines[k].asin : k \in {j \in 1..Len(lines) : lines[j].kind \in {"best", "current"}}}

C13_RankedWereSuccessful ==
    \A a \in Ranked :
       \E i \in ThisRun :
          /\ price_checks[i].asin = a
          /\ price_checks[i].ok
          /\ price_checks[i].price_gbp # NoAmount

\* C14: whatever browser-automation calls fail, the run is not aborted before
\* delivery: a run that ended with an exception although no store call had
\* raised has attempted the delivery; the digest is delivered at most once,
\* and only after every item of the watchlist has its result.
C14_DeliveredWhateverFails ==
    /\ Len(delivered) <= 1
    /\ delivered # <<>> => Len(results) = Len(items)
    /\ (pc = "crashed" /\ faults = 0) => Len(delivered) = 1

\* C15: between any two consecutive browser actions of the kinds open,
\* evaluate, scroll and navigate, within a product and from one product to
\* the next, a randomized delay takes place: whenever main() is about to
\* issue such an action, rand_sleep has run since the previous one.
BrowserPcs == {"open", "eval_product", "navigate", "scan_eval", "scan_scroll"}

C15_DelayBetweenBrowserActions == pc \in BrowserPcs => slept

\* C16: the store is committed after each product's row, so wherever the run
\* crashes, every product completed earlier in this run has its row among
\* the committed ones, and the uncommitted writes belong to the one product
\* in flight: a crash loses nothing else.
CommittedOf(asin) ==
    {i \in 1..Len(price_checks) :
        /\ i <= committed
        /\ price_checks[i].run_id = run_id
        /\ price_checks[i].asin = asin}

CompletedOf(asin) == {j \in 1..Len(results) : results[j].asin = asin}

C16_CompletedAreCommitted ==
    /\ \A a \in Asins : Cardinality(CompletedOf(a)) <= Cardinality(CommittedOf(a))
    /\ \A i \in 1..Len(price_checks) :
          i > committed =>
             /\ price_checks[i].run_id = run_id
             /\ price_checks[i].asin = item
             /\ Len(results) = idx - 1

\* the second product's error row is pending when its commit raises: the
\* exception is about to end the run, and the first product is committed
C16_Witness ==
    /\ pc = "finally"
    /\ propagating
    /\ idx = 2
    /\ Len(results) = 1
    /\ Len(price_checks) > committed
    /\ CommittedOf(items[1]) # {}

\* the run after that crash: the first product's row has survived
C16_WitnessCrashed ==
    /\ pc = "crashed"
    /\ idx = 2
    /\ Len(results) = 1
    /\ faults = 1
    /\ Cardinality(ThisRun) = 1

\* C17: PriceChecks is append-only across any sequence of store
\* initialisations and runs: no operation changes a value of a stored
\* (committed) row, removes one or reorders them; each operation leaves the
\* stored rows as they were or adds rows after them.
C17_AppendStep ==
    /\ committed' >= committed
    /\ Len(price_checks') >= committed
    /\ \A i \in 1..committed :
          \A c \in DOMAIN price_checks[i] :
             price_checks'[i][c] = price_checks[i][c]

C17_AppendOnly == [][C17_AppendStep]_vars

\* a run has added a row for a product to a store in which init_db had
\* found, and migrated, an older row of the same product
C17_Witness ==
    /\ pc = "closed"
    /\ committed = 2
    /\ Len(price_checks) = 2
    /\ price_checks[1].ts = 0
    /\ price_checks[2].ts = ts
    /\ price_checks[1].asin = price_checks[2].asin

\* C18: store initialisation is an additive, idempotent migration: run on a
\* store that lacks any of the optional columns, each of its steps only adds
\* columns, keeps every row and every value of the columns that were there,
\* and it returns with all the optional columns present; run on a store that
\* has them all, it changes nothing.
C18_MigrationStep ==
    pc \in {"closed", "ensure"} =>
       /\ columns \subseteq columns'
       /\ columns' \subseteq AllColumns
       /\ Len(price_checks') = Len(price_checks)
       /\ \A i \in 1..Len(price_checks) :
             /\ DOMAIN price_checks'[i] = columns'
             /\ \A c \in columns : price_checks'[i][c] = price_checks[i][c]
       /\ pc' = "ready" => columns' = AllColumns
       /\ columns = AllColumns =>
             columns' = columns /\ price_checks' = price_checks

C18_AdditiveIdempotentMigration == [][C18_MigrationStep]_vars

\* init_db runs for the second time on a store whose old row it had given
\* the price_source column (NULL in that row) the first time
C18_Witness ==
    /\ pc = "ensure"
    /\ idx = 3
    /\ columns = AllColumns
    /\ Len(price_checks) >= 1
    /\ price_checks[1].price_gbp = 950
    /\ price_checks[1].price_source = NoTitle

\* C19: the parser is total on an optional text: it returns null for a null
\* or empty text and for a text without a digit; otherwise it returns the
\* value of the first token of the form digits[.two digits] of the text with
\* its commas removed.
CommaFree(s) == SelectSeq(s, LAMBDA c : c \notin {","})

AsciiDigits == {"0", "1", "2", "3", "4", "5", "6", "7", "8", "9"}

\* the number a character stands for
NumberOf(c) ==
    CASE c = "0" -> 0 [] c = "1" -> 1 [] c = "2" -> 2 [] c = "3" -> 3
      [] c = "4" -> 4 [] c = "5" -> 5 [] c = "6" -> 6 [] c = "7" -> 7
      [] c = "8" -> 8 [] c = "9" -> 9

\* reading s from position i with the whole part n read so far, in pence
RECURSIVE ReadToken(_, _, _)
ReadToken(s, i, n) ==
    IF i <= Len(s) /\ s[i] \in AsciiDigits
      THEN ReadToken(s, i + 1, 10 * n + NumberOf(s[i]))
    ELSE IF /\ i + 2 <= Len(s)
            /\ s[i] = "."
            /\ s[i + 1] \in AsciiDigits
            /\ s[i + 2] \in AsciiDigits
      THEN 100 * n + 10 * NumberOf(s[i + 1]) + NumberOf(s[i + 2])
    ELSE 100 * n

\* skipping to the first digit of s from position i
RECURSIVE FirstTokenValue(_, _)
FirstTokenValue(s, i) ==
    IF i > Len(s) THEN NoAmount
    ELSE IF s[i] \in AsciiDigits THEN ReadToken(s, i, 0)
    ELSE FirstTokenValue(s, i + 1)

C19_ParserTotal ==
    pc = "parsed" =>
       /\ parsed \in Nat \cup {NoAmount}
       /\ parsed = (IF text = NoText THEN NoAmount
                    ELSE FirstTokenValue(CommaFree(text), 1))
       /\ parsed = NoAmount <=>
             \/ text = NoText
             \/ \A k \in 1..Len(text) : text[k] \notin AsciiDigits

\* "£1,5.55" without the currency sign: commas removed, 15.55
C19_Witness ==
    /\ pc = "parsed"
    /\ text = <<"1", ",", "5", ".", "5", "5">>
    /\ parsed = 1555

\* a text of blanks only
C19_WitnessBlank ==
    /\ pc = "parsed"
    /\ text = <<" ", " ">>
    /\ parsed = NoAmount

\* C20: across the runs that share one state file, an alert goes out only
\* when all three hold: the absolute 24h change is at least the threshold,
\* the cooldown since the last alert has elapsed, and the sign of the change
\* differs from the last alerted sign or no alert was ever sent; in
\* particular there is no alert while the cooldown has not elapsed.
C20_AlertOnlyWhenAllThree ==
    last_run.alert # "none" =>
       /\ Abs(last_run.change) >= Threshold
       /\ last_run.at - last_run.before.lastAlertTs >= CooldownS
       /\ \/ last_run.before.lastAlertSign = 0
          \/ last_run.before.lastAlertSign # SignOf(last_run.change)


\* C21: over a whole run, close is issued at most once per tab handle, and
\* only for the handle opened for the product being processed: no handle
\* occurs twice among the handles passed to close, so when open fails for a
\* product the cleanup issues no close for an earlier product's handle.
C21_CloseAtMostOncePerHandle ==
    \A i, j \in 1..Len(closed) : closed[i] = closed[j] => i = j

====
